---- MODULE Spec2Model ----
(***************************************************************************)
(* Model of go-abls (src/main.go): the SSE stream decoder                  *)
(* processStreamResponse and the conversation session state machine that   *)
(* consumes it.  Go strings and byte slices are sequences of one-character *)
(* strings, so prefix tests, byte-exact comparison, trimming, splitting    *)
(* and JSON decoding are computed on the bytes.                            *)
(***************************************************************************)
EXTENDS Integers, Sequences, FiniteSets, TLC

(***************************************************************************)
(* Bounds of the model.                                                    *)
(***************************************************************************)
\* most records of a response body before its ending
MaxLines == 2
\* number of inputs the interactive loop reads in one run
MaxInputs == 2

(***************************************************************************)
(* Byte-string helpers: the strings/bytes package functions the code uses. *)
(***************************************************************************)
\* bytes.HasPrefix / strings.HasPrefix
HasPrefix(s, p) ==
    /\ Len(s) >= Len(p)
    /\ SubSeq(s, 1, Len(p)) = p

\* Go slice expression s[n:] (0-based n)
SliceFrom(s, n) == SubSeq(s, n + 1, Len(s))

\* the white space strings.TrimSpace removes (ASCII part)
Space == {" ", "\t", "\n", "\r", "\f"}

RECURSIVE TrimLeft(_)
TrimLeft(s) ==
    IF s # <<>> /\ Head(s) \in Space THEN TrimLeft(Tail(s)) ELSE s

RECURSIVE TrimRight(_)
TrimRight(s) ==
    IF s # <<>> /\ s[Len(s)] \in Space
    THEN TrimRight(SubSeq(s, 1, Len(s) - 1))
    ELSE s

\* strings.TrimSpace
TrimSpace(s) == TrimRight(TrimLeft(s))

\* strings.Split(s, " "): the fields between single spaces, empty ones kept
RECURSIVE SplitFrom(_, _, _)
SplitFrom(s, i, cur) ==
    IF i > Len(s) THEN <<cur>>
    ELSE IF s[i] = " " THEN <<cur>> \o SplitFrom(s, i + 1, <<>>)
    ELSE SplitFrom(s, i + 1, Append(cur, s[i]))

Split(s) == SplitFrom(s, 1, <<>>)

(***************************************************************************)
(* encoding/json, as json.Unmarshal uses it: a syntax scan of the whole    *)
(* input first, then a typed decode into the destination struct.           *)
(* Values are tagged records [t, s, a, m]: t the JSON type, s the bytes of *)
(* a string or number, a the elements of an array, m the members of an     *)
(* object in source order as records [k, v].                               *)
(***************************************************************************)
JsonWs == {" ", "\t", "\n", "\r"}
Digits == {"0", "1", "2", "3", "4", "5", "6", "7", "8", "9"}

JVal(t, s, a, m) == [t |-> t, s |-> s, a |-> a, m |-> m]
PFail == [ok |-> FALSE, pos |-> 0, val |-> JVal("null", <<>>, <<>>, <<>>)]
POk(p, v) == [ok |-> TRUE, pos |-> p, val |-> v]

RECURSIVE SkipWs(_, _)
SkipWs(b, i) ==
    IF i <= Len(b) /\ b[i] \in JsonWs THEN SkipWs(b, i + 1) ELSE i

\* the bytes of a string literal whose opening quote is at i - 1; no escape
\* sequences: a backslash or a control character inside a string is an error
RECURSIVE ScanString(_, _, _)
ScanString(b, i, acc) ==
    IF i > Len(b) THEN PFail
    ELSE IF b[i] = "\"" THEN POk(i + 1, JVal("string", acc, <<>>, <<>>))
    ELSE IF b[i] \in {"\\", "\n", "\r", "\t", "\f"} THEN PFail
    ELSE ScanString(b, i + 1, Append(acc, b[i]))

RECURSIVE ScanDigits(_, _, _)
ScanDigits(b, i, acc) ==
    IF i <= Len(b) /\ b[i] \in Digits
    THEN ScanDigits(b, i + 1, Append(acc, b[i]))
    ELSE POk(i, JVal("number", acc, <<>>, <<>>))

ScanLiteral(b, i, lit, t) ==
    IF HasPrefix(SliceFrom(b, i - 1), lit)
    THEN POk(i + Len(lit), JVal(t, <<>>, <<>>, <<>>))
    ELSE PFail

RECURSIVE ScanValue(_, _)
RECURSIVE ScanElements(_, _, _)
RECURSIVE ScanMembers(_, _, _)

\* "[" at j: an empty array when k, the next byte that is not white space,
\* is "]"
ScanArray(b, j, k) ==
    IF k <= Len(b) /\ b[k] = "]"
    THEN POk(k + 1, JVal("array", <<>>, <<>>, <<>>))
    ELSE ScanElements(b, j + 1, <<>>)

\* "{" at j, likewise
ScanObject(b, j, k) ==
    IF k <= Len(b) /\ b[k] = "}"
    THEN POk(k + 1, JVal("object", <<>>, <<>>, <<>>))
    ELSE ScanMembers(b, j + 1, <<>>)

\* the value whose first byte is at j
ScanValueAt(b, j) ==
    IF j > Len(b) THEN PFail
    ELSE IF b[j] = "\"" THEN ScanString(b, j + 1, <<>>)
    ELSE IF b[j] \in Digits THEN ScanDigits(b, j, <<>>)
    ELSE IF b[j] = "n" THEN ScanLiteral(b, j, <<"n","u","l","l">>, "null")
    ELSE IF b[j] = "t" THEN ScanLiteral(b, j, <<"t","r","u","e">>, "bool")
    ELSE IF b[j] = "f" THEN ScanLiteral(b, j, <<"f","a","l","s","e">>, "bool")
    ELSE IF b[j] = "[" THEN ScanArray(b, j, SkipWs(b, j + 1))
    ELSE IF b[j] = "{" THEN ScanObject(b, j, SkipWs(b, j + 1))
    ELSE PFail

\* one JSON value starting at or after position i
ScanValue(b, i) == ScanValueAt(b, SkipWs(b, i))

\* after the element r of an array: k is the next byte that is not white space
ScanElementEnd(b, r, k, acc) ==
    IF k > Len(b) THEN PFail
    ELSE IF b[k] = "," THEN ScanElements(b, k + 1, Append(acc, r.val))
    ELSE IF b[k] = "]"
         THEN POk(k + 1, JVal("array", <<>>, Append(acc, r.val), <<>>))
    ELSE PFail

ScanElement(b, r, acc) ==
    IF ~r.ok THEN PFail ELSE ScanElementEnd(b, r, SkipWs(b, r.pos), acc)

\* the elements of a non-empty array, after "[" or ","
ScanElements(b, i, acc) == ScanElement(b, ScanValue(b, i), acc)

\* after the member mem of an object
ScanMemberEnd(b, k, mem, acc) ==
    IF k > Len(b) THEN PFail
    ELSE IF b[k] = "," THEN ScanMembers(b, k + 1, Append(acc, mem))
    ELSE IF b[k] = "}"
         THEN POk(k + 1, JVal("object", <<>>, <<>>, Append(acc, mem)))
    ELSE PFail

ScanMemberValue(b, key, r, acc) ==
    IF ~r.ok THEN PFail
    ELSE ScanMemberEnd(b, SkipWs(b, r.pos), [k |-> key.val.s, v |-> r.val],
                       acc)

\* after the key of a member: c is the next byte that is not white space
ScanMemberColon(b, key, c, acc) ==
    IF c > Len(b) \/ b[c] # ":" THEN PFail
    ELSE ScanMemberValue(b, key, ScanValue(b, c + 1), acc)

ScanMemberKey(b, key, acc) ==
    IF ~key.ok THEN PFail
    ELSE ScanMemberColon(b, key, SkipWs(b, key.pos), acc)

ScanMember(b, j, acc) ==
    IF j > Len(b) \/ b[j] # "\"" THEN PFail
    ELSE ScanMemberKey(b, ScanString(b, j + 1, <<>>), acc)

\* the members of a non-empty object, after "{" or ","
ScanMembers(b, i, acc) == ScanMember(b, SkipWs(b, i), acc)

\* r scanned all of b but trailing white space
WholeInput(b, r) ==
    IF r.ok /\ SkipWs(b, r.pos) = Len(b) + 1 THEN r ELSE PFail

\* the whole input is exactly one JSON value (json.Unmarshal's checkValid)
ParseJson(b) == WholeInput(b, ScanValue(b, 1))

(***************************************************************************)
(* The typed decode into StreamResponse (src/main.go:43-57).  A JSON null  *)
(* leaves a string, int or struct field as it was and makes a slice nil; a *)
(* value of another JSON type than the field's is an UnmarshalTypeError,   *)
(* which Unmarshal returns after decoding the rest.  Keys are matched      *)
(* exactly; keys the struct does not have are ignored.                     *)
(***************************************************************************)
K_id == <<"i","d">>
K_model == <<"m","o","d","e","l">>
K_choices == <<"c","h","o","i","c","e","s">>
K_delta == <<"d","e","l","t","a">>
K_content == <<"c","o","n","t","e","n","t">>
K_finish_reason == <<"f","i","n","i","s","h","_","r","e","a","s","o","n">>
K_usage == <<"u","s","a","g","e">>
K_prompt_tokens == <<"p","r","o","m","p","t","_","t","o","k","e","n","s">>
K_completion_tokens ==
    <<"c","o","m","p","l","e","t","i","o","n","_","t","o","k","e","n","s">>
K_total_tokens == <<"t","o","t","a","l","_","t","o","k","e","n","s">>

\* the members of o whose key is k
Members(o, k) == LET Is(e) == e.k = k IN SelectSeq(o.m, Is)

ValuesOf(ms) == [i \in 1..Len(ms) |-> ms[i].v]

\* the values an object gives for key k, in source order
FieldValues(o, k) == ValuesOf(Members(o, k))

AnyNot(vs, t) == \E i \in 1..Len(vs) : vs[i].t \notin {t, "null"}

\* some value given for key k has neither type t nor is null
BadField(o, k, t) == AnyNot(FieldValues(o, k), t)

LastString(vs) == IF vs = <<>> THEN <<>> ELSE vs[Len(vs)].s

Strings(vs) == LET IsStr(v) == v.t = "string" IN SelectSeq(vs, IsStr)

\* a Go string field: the last JSON string given for the key, else ""
StringField(o, k) == LastString(Strings(FieldValues(o, k)))

\* a Go struct field or slice element: the object to decode from, or an
\* empty object when the value is null or of the wrong type
AsObject(v) == IF v.t = "object" THEN v ELSE JVal("object", <<>>, <<>>, <<>>)

RECURSIVE MergeMembers(_)
MergeMembers(vs) ==
    IF vs = <<>> THEN <<>>
    ELSE AsObject(Head(vs)).m \o MergeMembers(Tail(vs))

\* a struct field: the members of every object given for the key, in order
StructField(o, k) ==
    JVal("object", <<>>, <<>>, MergeMembers(FieldValues(o, k)))

\* Choices[i].Delta (src/main.go:47-49)
DecodeDelta(o) == [Content |-> StringField(o, K_content)]

DeltaTypeError(o) == BadField(o, K_content, "string")

\* one element of Choices (src/main.go:46-51), from the object o
DecodeChoiceObject(o) ==
    [Delta |-> DecodeDelta(StructField(o, K_delta)),
     FinishReason |-> StringField(o, K_finish_reason)]

DecodeChoice(v) == DecodeChoiceObject(AsObject(v))

ChoiceObjectTypeError(o) ==
    \/ BadField(o, K_delta, "object")
    \/ DeltaTypeError(StructField(o, K_delta))
    \/ BadField(o, K_finish_reason, "string")

ChoiceTypeError(v) ==
    \/ v.t \notin {"object", "null"}
    \/ ChoiceObjectTypeError(AsObject(v))

\* the elements of the JSON array v as choices
ChoicesOf(v) == [i \in 1..Len(v.a) |-> DecodeChoice(v.a[i])]

LastChoices(vs) ==
    IF vs = <<>> \/ vs[Len(vs)].t # "array" THEN <<>>
    ELSE ChoicesOf(vs[Len(vs)])

\* the Choices slice: the elements of the last array given, nil after a null
DecodeChoices(o) == LastChoices(FieldValues(o, K_choices))

ArrayTypeError(v) ==
    /\ v.t = "array"
    /\ \E j \in 1..Len(v.a) : ChoiceTypeError(v.a[j])

AnyArrayTypeError(vs) == \E i \in 1..Len(vs) : ArrayTypeError(vs[i])

ChoicesTypeError(o) ==
    \/ BadField(o, K_choices, "array")
    \/ AnyArrayTypeError(FieldValues(o, K_choices))

UsageObjectTypeError(u) ==
    \E k \in {K_prompt_tokens, K_completion_tokens, K_total_tokens} :
        BadField(u, k, "number")

UsageTypeError(o) ==
    \/ BadField(o, K_usage, "object")
    \/ UsageObjectTypeError(StructField(o, K_usage))

\* the zero StreamResponse
ZeroChunk == [ID |-> <<>>, Model |-> <<>>, Choices |-> <<>>]

\* the decode of the scanned input r into a zero chunk
UnmarshalValue(r) ==
    IF ~r.ok THEN [err |-> TRUE, chunk |-> ZeroChunk]
    ELSE IF r.val.t = "null" THEN [err |-> FALSE, chunk |-> ZeroChunk]
    ELSE IF r.val.t # "object" THEN [err |-> TRUE, chunk |-> ZeroChunk]
    ELSE [err |-> \/ BadField(r.val, K_id, "string")
                  \/ BadField(r.val, K_model, "string")
                  \/ ChoicesTypeError(r.val)
                  \/ UsageTypeError(r.val),
          chunk |-> [ID |-> StringField(r.val, K_id),
                     Model |-> StringField(r.val, K_model),
                     Choices |-> DecodeChoices(r.val)]]

\* json.Unmarshal(data, &chunk) on a zero chunk: the decoded chunk and
\* whether an error is returned (src/main.go:360-361)
Unmarshal(data) == UnmarshalValue(ParseJson(data))

(***************************************************************************)
(* What the remote service can put on the wire: the response bodies the    *)
(* decoder is run on are concatenations of these records.                  *)
(***************************************************************************)
JStr(s) == <<"\"">> \o s \o <<"\"">>
JMember(k, v) == JStr(k) \o <<":">> \o v
JObj1(m1) == <<"{">> \o m1 \o <<"}">>
JObj2(m1, m2) == <<"{">> \o m1 \o <<",">> \o m2 \o <<"}">>
JArr1(e1) == <<"[">> \o e1 \o <<"]">>
JArr2(e1, e2) == <<"[">> \o e1 \o <<",">> \o e2 \o <<"]">>

DataPrefix == <<"d","a","t","a",":"," ">>
DoneLine == <<"d","a","t","a",":"," ","[","D","O","N","E","]","\n">>
StopReason == <<"s","t","o","p">>

\* a choice carrying a fragment, and one that also carries finish_reason
WireDelta(c) == JMember(K_delta, JObj1(JMember(K_content, JStr(c))))
WireChoice(c) == JObj1(WireDelta(c))
WireChoiceFin(c, f) == JObj2(WireDelta(c), JMember(K_finish_reason, JStr(f)))
WireEvent(id, choices) ==
    DataPrefix \o JObj2(JMember(K_id, JStr(id)), JMember(K_choices, choices))
               \o <<"\n">>
WireEventNoId(choices) ==
    DataPrefix \o JObj1(JMember(K_choices, choices)) \o <<"\n">>

\* data: {"id":"r1","choices":[{"delta":{"content":"He"}}]}
LineA == WireEvent(<<"r","1">>, JArr1(WireChoice(<<"H","e">>)))
\* data: {"id":"r2","choices":[{"delta":{"content":"y"}}]}
LineB == WireEvent(<<"r","2">>, JArr1(WireChoice(<<"y">>)))
\* no id; the first choice is empty, the second carries "Z" and "stop"
LineSecond ==
    WireEventNoId(JArr2(WireChoice(<<>>), WireChoiceFin(<<"Z">>, StopReason)))
\* data: {"choices":[{"delta":{"content":""},"finish_reason":"stop"}]}
LineStop == WireEventNoId(JArr1(WireChoiceFin(<<>>, StopReason)))
\* the same stop event carrying the id "r3"
LineStopId == WireEvent(<<"r","3">>, JArr1(WireChoiceFin(<<>>, StopReason)))
\* a stop event that itself carries the fragment "." and no id
LineStopFrag == WireEventNoId(JArr1(WireChoiceFin(<<".">>, StopReason)))
\* data: {"id":   (truncated JSON)
LineBad == DataPrefix \o <<"{","\"","i","d","\"",":","\n">>
\* data: []   (well-formed JSON that is not an object)
LineArray == DataPrefix \o <<"[","]","\n">>
\* data: null
LineNull == DataPrefix \o <<"n","u","l","l","\n">>
\* data: [DONE] followed by a carriage return
LineDoneCR == SubSeq(DoneLine, 1, 12) \o <<"\r","\n">>
\* a keep-alive comment shorter than the prefix
LineShort == <<":","k","\n">>
\* a blank line
LineBlank == <<"\n">>
\* an event without the "data: " prefix
LineNoPrefix == SliceFrom(LineA, 6)

Catalogue ==
    {LineA, LineB, LineSecond, LineStop, LineStopId, LineStopFrag, DoneLine,
     LineBad, LineArray, LineNull, LineDoneCR, LineShort, LineBlank,
     LineNoPrefix}

\* bytes after the last newline: an event the service did not terminate
PartialTail == SubSeq(LineB, 1, Len(LineB) - 1)

RECURSIVE Concat(_)
Concat(ls) == IF ls = <<>> THEN <<>> ELSE Head(ls) \o Concat(Tail(ls))

LineSeqs(n) == UNION {[1..k -> Catalogue] : k \in 0..n}

\* a response body: its bytes and the error the read after them returns
Body(data, err) == [data |-> data, err |-> err]

\* how a body ends after its records: at end of stream, with the terminator,
\* with bytes that no newline follows, or with a failing read
Endings ==
    {Body(<<>>, "EOF"), Body(DoneLine, "EOF"), Body(PartialTail, "EOF"),
     Body(<<>>, "ERR")}

Bodies(n) ==
    {Body(Concat(ls) \o e.data, e.err) : ls \in LineSeqs(n), e \in Endings}

(***************************************************************************)
(* State.                                                                  *)
(***************************************************************************)
VARIABLES
    defaultModel,   \* the -model flag
    Model,          \* ChatState.Model
    History,        \* ChatState.History: messages [Role, Content]
    CmdHistory,     \* ChatState.CmdHistory
    Debug,          \* ChatState.Debug
    LastRequestID,  \* ChatState.LastRequestID
    isSingleCmd,    \* ChatState.isSingleCmd
    enableStream,   \* the -stream flag
    pc,             \* where the process is
    nread,          \* inputs read so far
    exitCode,       \* exit status once the process has ended, else -1
    streamOutput,   \* processAIResponse's argument for the turn in flight
    sent,           \* the payload of the last request handed to Client.Do
    status,         \* the status code of the last response, 0 before any
    resp,           \* the response body being decoded
    rd,             \* bytes of resp.data the reader has consumed
    fullResponse,   \* processStreamResponse's accumulator
    requestID,      \* processStreamResponse's requestID
    ret,            \* what streamChatCompletion returned: [text, id, err]
    out,            \* what was printed, as records [k, s]
    pre             \* the session as it was when the turn's input was read

vars == <<defaultModel, Model, History, CmdHistory, Debug, LastRequestID, isSingleCmd,
          enableStream, pc, nread, exitCode, streamOutput, sent, status, resp,
          rd, fullResponse, requestID, ret, out, pre>>

session == <<defaultModel, Model, History, CmdHistory, Debug, LastRequestID,
             isSingleCmd, enableStream, nread, exitCode, sent, status, pre>>

(***************************************************************************)
(* processStreamResponse (src/main.go:336-393).  The decoder's locals are  *)
(* a record d = [pc, rd, fullResponse, requestID, ret, out]; Iter is one   *)
(* iteration of the loop, Branch the path the iteration takes.             *)
(***************************************************************************)
NoRet == [text |-> <<>>, id |-> <<>>, err |-> "none"]
Ret(text, id, err) == [text |-> text, id |-> id, err |-> err]

Printed(k, s) == [k |-> k, s |-> s]

\* position of the first "\n" after the first pos bytes, or 0
RECURSIVE NewlineAfter(_, _)
NewlineAfter(data, pos) ==
    IF pos >= Len(data) THEN 0
    ELSE IF data[pos + 1] = "\n" THEN pos + 1
    ELSE NewlineAfter(data, pos + 1)

ReadResult(body, pos, j) ==
    IF j = 0
    THEN [line |-> SubSeq(body.data, pos + 1, Len(body.data)),
          err |-> body.err, pos |-> Len(body.data)]
    ELSE [line |-> SubSeq(body.data, pos + 1, j), err |-> "nil", pos |-> j]

\* reader.ReadBytes('\n'): the bytes up to and including the next newline,
\* or the remaining bytes and the body's error when there is none
ReadBytes(body, pos) == ReadResult(body, pos, NewlineAfter(body.data, pos))

\* src/main.go:352
Skippable(line) == Len(line) < 6 \/ ~HasPrefix(line, DataPrefix)

\* a terminator check that looks at the first twelve bytes only
IsTerminator_Prefix(line) == HasPrefix(line, SubSeq(DoneLine, 1, 12))

\* src/main.go:356
IsTerminator(line) == line = DoneLine

\* a decoder that keeps the last id it sees instead of the first
CaptureID_LastWins(id, chunk) ==
    IF chunk.ID # <<>> THEN chunk.ID ELSE id

\* src/main.go:369-371
CaptureID(id, chunk) ==
    IF id = <<>> /\ chunk.ID # <<>> THEN chunk.ID ELSE id

\* src/main.go:373-375: the fragment a chunk contributes, "" when none
ChunkContent(chunk) ==
    IF Len(chunk.Choices) > 0 THEN chunk.Choices[1].Delta.Content ELSE <<>>

\* a decoder that takes no notice of finish_reason
ChunkStops_Never(chunk) == FALSE

\* src/main.go:373, 382
ChunkStops(chunk) ==
    Len(chunk.Choices) > 0 /\ chunk.Choices[1].FinishReason = StopReason

\* a decoder that prints fragments whether or not it was asked to
ChunkPrints_Always(chunk, debug, so) ==
    (IF debug THEN <<Printed("debug", chunk.ID)>> ELSE <<>>)
    \o (IF ChunkContent(chunk) # <<>>
        THEN <<Printed("frag", ChunkContent(chunk))>> ELSE <<>>)

\* src/main.go:365-367 and 376-378: what one chunk prints
ChunkPrints(chunk, debug, so) ==
    (IF debug THEN <<Printed("debug", chunk.ID)>> ELSE <<>>)
    \o (IF so /\ ChunkContent(chunk) # <<>>
        THEN <<Printed("frag", ChunkContent(chunk))>> ELSE <<>>)

\* a decoder that goes on to the next record when one fails to parse
IterChunk_SkipBad(d, u, debug, so) ==
    IF u.err
    THEN d
    ELSE [d EXCEPT !.out = @ \o ChunkPrints(u.chunk, debug, so),
                   !.requestID = CaptureID(@, u.chunk),
                   !.fullResponse = @ \o ChunkContent(u.chunk),
                   !.pc = IF ChunkStops(u.chunk) THEN "LoopEnd" ELSE @]

\* src/main.go:362-385: after json.Unmarshal returned u
IterChunk(d, u, debug, so) ==
    IF u.err
    THEN [d EXCEPT !.ret = Ret(<<>>, <<>>, "json"), !.pc = "Returned"]
    ELSE [d EXCEPT !.out = @ \o ChunkPrints(u.chunk, debug, so),
                   !.requestID = CaptureID(@, u.chunk),
                   !.fullResponse = @ \o ChunkContent(u.chunk),
                   !.pc = IF ChunkStops(u.chunk) THEN "LoopEnd" ELSE @]

\* src/main.go:360-385: a record that is neither skipped nor the terminator
IterRecord(d, line, debug, so) ==
    IterChunk(d, Unmarshal(SliceFrom(line, 6)), debug, so)

\* a decoder that reads on after the terminator
IterRead_PastDone(d, r, debug, so) ==
    IF r.err = "EOF" THEN [d EXCEPT !.rd = r.pos, !.pc = "LoopEnd"]
    ELSE IF r.err # "nil"
    THEN [d EXCEPT !.rd = r.pos, !.ret = Ret(<<>>, <<>>, "read"),
                   !.pc = "Returned"]
    ELSE IF Skippable(r.line) \/ IsTerminator(r.line)
    THEN [d EXCEPT !.rd = r.pos]
    ELSE IterRecord([d EXCEPT !.rd = r.pos], r.line, debug, so)

\* a decoder that parses what is left at the end of the stream
IterRead_ParsesTail(d, r, debug, so) ==
    IF r.err = "EOF"
    THEN (IF Skippable(r.line) THEN [d EXCEPT !.rd = r.pos, !.pc = "LoopEnd"]
          ELSE [IterRecord([d EXCEPT !.rd = r.pos], r.line, debug, so)
                    EXCEPT !.pc = IF @ = "Returned" THEN @ ELSE "LoopEnd"])
    ELSE IF r.err # "nil"
    THEN [d EXCEPT !.rd = r.pos, !.ret = Ret(<<>>, <<>>, "read"),
                   !.pc = "Returned"]
    ELSE IF Skippable(r.line) THEN [d EXCEPT !.rd = r.pos]
    ELSE IF IsTerminator(r.line) THEN [d EXCEPT !.rd = r.pos, !.pc = "LoopEnd"]
    ELSE IterRecord([d EXCEPT !.rd = r.pos], r.line, debug, so)

\* src/main.go:345-385: after reader.ReadBytes returned r
IterRead(d, r, debug, so) ==
    IF r.err = "EOF" THEN [d EXCEPT !.rd = r.pos, !.pc = "LoopEnd"]
    ELSE IF r.err # "nil"
    THEN [d EXCEPT !.rd = r.pos, !.ret = Ret(<<>>, <<>>, "read"),
                   !.pc = "Returned"]
    ELSE IF Skippable(r.line) THEN [d EXCEPT !.rd = r.pos]
    ELSE IF IsTerminator(r.line) THEN [d EXCEPT !.rd = r.pos, !.pc = "LoopEnd"]
    ELSE IterRecord([d EXCEPT !.rd = r.pos], r.line, debug, so)

\* src/main.go:343-386: one iteration of the loop
Iter(body, d, debug, so) == IterRead(d, ReadBytes(body, d.rd), debug, so)

\* the path IterRead takes for a read result, short of parsing a record
ReadKind(r) ==
    IF r.err = "EOF" THEN "eof"
    ELSE IF r.err # "nil" THEN "readerror"
    ELSE IF Skippable(r.line) THEN "skip"
    ELSE IF IsTerminator(r.line) THEN "done"
    ELSE "record"

\* the path the next iteration takes, short of parsing a record
NextRead(body, d) == ReadKind(ReadBytes(body, d.rd))

\* whether an iteration ended with the error of json.Unmarshal
Malformed(d) == d.ret.err = "json"

\* a decoder without the check for an empty reply
LoopResult_NoGuard(text, id) == Ret(text, id, "nil")

\* src/main.go:388-392
LoopResult(text, id) ==
    IF Len(text) = 0 THEN Ret(<<>>, <<>>, "empty") ELSE Ret(text, id, "nil")

AfterLoop(d) ==
    [d EXCEPT !.ret = LoopResult(d.fullResponse, d.requestID),
              !.pc = "Returned"]

\* the decoder at src/main.go:337-341
DecStart(so, printed) ==
    [pc |-> IF so THEN "Streaming" ELSE "Buffering", rd |-> 0,
     fullResponse |-> <<>>, requestID |-> <<>>, ret |-> NoRet,
     out |-> printed]

RECURSIVE RunDecoder(_, _, _, _)
RunDecoder(body, d, debug, so) ==
    IF d.pc = "Returned" THEN d
    ELSE IF d.pc = "LoopEnd" THEN RunDecoder(body, AfterLoop(d), debug, so)
    ELSE RunDecoder(body, Iter(body, d, debug, so), debug, so)

\* processStreamResponse(body, debug, streamOutput): what it returns
processStreamResponse(body, debug, so) ==
    RunDecoder(body, DecStart(so, <<>>), debug, so).ret

\* the decoder's locals in the current state, and their update
Cur == [pc |-> pc, rd |-> rd, fullResponse |-> fullResponse,
        requestID |-> requestID, ret |-> ret, out |-> out]

SetDecoder(d) ==
    /\ pc' = d.pc
    /\ rd' = d.rd
    /\ fullResponse' = d.fullResponse
    /\ requestID' = d.requestID
    /\ ret' = d.ret
    /\ out' = d.out

\* the decoder becomes d, for an iteration that parsed a record with or
\* without an error
SetParsed(d, malformed) == Malformed(d) = malformed /\ SetDecoder(d)

InLoop == pc \in {"Streaming", "Buffering"}

\* src/main.go:344-349, a read error that is not io.EOF
DecodeReadError ==
    /\ InLoop
    /\ NextRead(resp, Cur) = "readerror"
    /\ SetDecoder(Iter(resp, Cur, Debug, streamOutput))
    /\ UNCHANGED <<session, streamOutput, resp>>

\* src/main.go:344-348, io.EOF ends the loop
DecodeEOF ==
    /\ InLoop
    /\ NextRead(resp, Cur) = "eof"
    /\ SetDecoder(Iter(resp, Cur, Debug, streamOutput))
    /\ UNCHANGED <<session, streamOutput, resp>>

\* src/main.go:352-354
DecodeSkip ==
    /\ InLoop
    /\ NextRead(resp, Cur) = "skip"
    /\ SetDecoder(Iter(resp, Cur, Debug, streamOutput))
    /\ UNCHANGED <<session, streamOutput, resp>>

\* src/main.go:356-358
DecodeDone ==
    /\ InLoop
    /\ NextRead(resp, Cur) = "done"
    /\ SetDecoder(Iter(resp, Cur, Debug, streamOutput))
    /\ UNCHANGED <<session, streamOutput, resp>>

\* src/main.go:360-363
DecodeMalformed ==
    /\ InLoop
    /\ NextRead(resp, Cur) = "record"
    /\ SetParsed(Iter(resp, Cur, Debug, streamOutput), TRUE)
    /\ UNCHANGED <<session, streamOutput, resp>>

\* src/main.go:360-385
DecodeChunk ==
    /\ InLoop
    /\ NextRead(resp, Cur) = "record"
    /\ SetParsed(Iter(resp, Cur, Debug, streamOutput), FALSE)
    /\ UNCHANGED <<session, streamOutput, resp>>

\* src/main.go:388-392
DecodeReturn ==
    /\ pc = "LoopEnd"
    /\ SetDecoder(AfterLoop(Cur))
    /\ UNCHANGED <<session, streamOutput, resp>>

(***************************************************************************)
(* The session: main, executeSingleCommand, startInteractiveSession,       *)
(* handleCommand and processAIResponse.                                    *)
(***************************************************************************)
SystemPreamble ==
    <<"Y","o","u"," ","a","r","e"," ","a"," ","h","e","l","p","f","u","l",
      " ","a","s","s","i","s","t","a","n","t",".">>

Msg(role, content) == [Role |-> role, Content |-> content]

\* src/main.go:85 and 226
FreshHistory == <<Msg("system", SystemPreamble)>>

M_qwen_plus == <<"q","w","e","n","-","p","l","u","s">>
M_qwen_max == <<"q","w","e","n","-","m","a","x">>
M_qwen_turbo == <<"q","w","e","n","-","t","u","r","b","o">>
M_deepseek_r1 == <<"d","e","e","p","s","e","e","k","-","r","1">>
M_deepseek_v3 == <<"d","e","e","p","s","e","e","k","-","v","3">>

\* src/main.go:240
AllowedModels ==
    {M_qwen_plus, M_qwen_max, M_qwen_turbo, M_deepseek_r1, M_deepseek_v3}

\* the -model flag: its default, or a name given on the command line
M_custom == <<"m","y","-","l","l","m">>
StartModels == {M_qwen_plus, M_custom}

I_exit == <<"e","x","i","t">>
I_quit == <<"/","q","u","i","t">>
I_reset == <<"/","r","e","s","e","t">>
I_model == <<"/","m","o","d","e","l">>
I_debug == <<"/","d","e","b","u","g">>
I_help == <<"/","h","e","l","p">>
I_history == <<"/","h","i","s","t","o","r","y">>

\* the lines a user types, as Readline returns them
RawInputs ==
    {<<>>, <<" ">>,
     I_exit, I_reset, I_debug, I_help, I_history, I_model,
     I_model \o <<" ">> \o M_qwen_max,
     I_model \o <<" ","g","p","t","-","4">>,
     I_model \o <<"x"," ">> \o M_deepseek_r1,
     <<" ">> \o I_reset \o <<" ">>,
     <<" ","h","i"," ">>}

\* a switch without the /history case
CommandKind_NoHistory(input) ==
    IF input = I_exit \/ input = I_quit THEN "exit"
    ELSE IF input = I_reset THEN "reset"
    ELSE IF HasPrefix(input, I_model) THEN "model"
    ELSE IF input = I_debug THEN "debug"
    ELSE IF input = I_help THEN "help"
    ELSE "text"

\* src/main.go:203-222: the case of handleCommand's switch an input takes
CommandKind(input) ==
    IF input = I_exit \/ input = I_quit THEN "exit"
    ELSE IF input = I_reset THEN "reset"
    ELSE IF HasPrefix(input, I_model) THEN "model"
    ELSE IF input = I_debug THEN "debug"
    ELSE IF input = I_help THEN "help"
    ELSE IF input = I_history THEN "history"
    ELSE "text"

\* a variant without the allow-list
handleModelSwitch_NoCheck(input, model) ==
    IF Len(Split(input)) < 2 THEN model ELSE Split(input)[2]

\* src/main.go:231-246: the model after handleModelSwitch(input, state)
handleModelSwitch(input, model) ==
    LET parts == Split(input) IN
    IF Len(parts) < 2 THEN model
    ELSE IF parts[2] \in AllowedModels THEN parts[2]
    ELSE model

\* what handleModelSwitch prints
ModelSwitchPrint(input, model) ==
    LET parts == Split(input) IN
    IF Len(parts) < 2 THEN Printed("models", model)
    ELSE IF parts[2] \in AllowedModels THEN Printed("switched", parts[2])
    ELSE Printed("unsupported", <<>>)

Snapshot == [History |-> History, Model |-> Model, Debug |-> Debug,
             LastRequestID |-> LastRequestID, CmdHistory |-> CmdHistory]

NoPre == [History |-> <<>>, Model |-> <<>>, Debug |-> FALSE,
          LastRequestID |-> <<>>, CmdHistory |-> <<>>]

NoPayload == [Model |-> <<>>, Messages |-> <<>>, Stream |-> FALSE]

\* what the input handlers leave alone
turn == <<defaultModel, streamOutput, sent, status, resp, rd, fullResponse,
          requestID, ret>>

\* src/main.go:70-101 after the ChatState is built
Init ==
    /\ defaultModel \in StartModels
    /\ Model = defaultModel
    /\ History = FreshHistory
    /\ CmdHistory = <<>>
    /\ Debug \in BOOLEAN
    /\ LastRequestID = <<>>
    /\ isSingleCmd \in BOOLEAN
    /\ enableStream \in (IF isSingleCmd THEN BOOLEAN ELSE {FALSE})
    /\ pc = "Idle"
    /\ nread = 0
    /\ exitCode = -1
    /\ streamOutput = FALSE
    /\ sent = NoPayload
    /\ status = 0
    /\ resp = Body(<<>>, "EOF")
    /\ rd = 0
    /\ fullResponse = <<>>
    /\ requestID = <<>>
    /\ ret = NoRet
    /\ out = <<>>
    /\ pre = NoPre

\* an input loop that does not wait for the turn to end
Reads_Anytime(raw) ==
    /\ pc \notin {"Exited"}
    /\ nread < MaxInputs
    /\ raw \in RawInputs
    /\ isSingleCmd => raw # <<>>
    /\ nread' = nread + 1

\* an input arrives: the -c command (src/main.go:92-93), never empty, or a
\* line from rl.Readline() (src/main.go:145)
Reads(raw) ==
    /\ pc = "Idle"
    /\ nread < MaxInputs
    /\ raw \in RawInputs
    /\ isSingleCmd => raw # <<>>
    /\ nread' = nread + 1

\* handleCommand returned true: src/main.go:119-121 and 97, or 166-168
Handled ==
    /\ pc' = IF isSingleCmd THEN "Exited" ELSE "Idle"
    /\ exitCode' = IF isSingleCmd THEN 0 ELSE exitCode

\* src/main.go:146-157: Readline fails; an interrupt on an empty line or
\* end of input leaves the loop and main returns
ReadlineEnds ==
    /\ pc = "Idle"
    /\ ~isSingleCmd
    /\ pc' = "Exited"
    /\ exitCode' = 0
    /\ UNCHANGED <<Model, History, CmdHistory, Debug, LastRequestID,
                   isSingleCmd, enableStream, nread, turn, out, pre>>

\* src/main.go:146-157: an interrupt on a non-empty line, or another read
\* error, which is reported; the loop goes on
ReadlineFails ==
    /\ pc = "Idle"
    /\ ~isSingleCmd
    /\ nread < MaxInputs
    /\ nread' = nread + 1
    /\ \E reported \in BOOLEAN :
         out' = IF reported THEN Append(out, Printed("error", <<>>)) ELSE out
    /\ UNCHANGED <<Model, History, CmdHistory, Debug, LastRequestID,
                   isSingleCmd, enableStream, pc, exitCode, turn, pre>>

\* src/main.go:112-115 and 93-95, or 159-162: nothing but white space
EnterBlank ==
    \E raw \in RawInputs :
        /\ Reads(raw)
        /\ TrimSpace(raw) = <<>>
        /\ pc' = IF isSingleCmd THEN "Exited" ELSE "Idle"
        /\ exitCode' = IF isSingleCmd THEN 1 ELSE exitCode
        /\ out' = IF isSingleCmd THEN Append(out, Printed("error", <<>>))
                  ELSE out
        /\ UNCHANGED <<Model, History, CmdHistory, Debug, LastRequestID,
                       isSingleCmd, enableStream, turn, pre>>

\* src/main.go:204-205
EnterExit ==
    \E raw \in RawInputs :
        /\ Reads(raw)
        /\ TrimSpace(raw) # <<>>
        /\ CommandKind(TrimSpace(raw)) = "exit"
        /\ CmdHistory' = Append(CmdHistory, TrimSpace(raw))
        /\ pc' = "Exited"
        /\ exitCode' = 0
        /\ UNCHANGED <<Model, History, Debug, LastRequestID, isSingleCmd,
                       enableStream, turn, out, pre>>

\* a variant that empties the history
resetConversation_Empty ==
    \E raw \in RawInputs :
        /\ Reads(raw)
        /\ TrimSpace(raw) # <<>>
        /\ CommandKind(TrimSpace(raw)) = "reset"
        /\ CmdHistory' = Append(CmdHistory, TrimSpace(raw))
        /\ History' = <<>>
        /\ LastRequestID' = <<>>
        /\ out' = Append(out, Printed("reset", <<>>))
        /\ Handled
        /\ UNCHANGED <<Model, Debug, isSingleCmd, enableStream, turn, pre>>

\* a variant that keeps the last request id
resetConversation_KeepsID ==
    \E raw \in RawInputs :
        /\ Reads(raw)
        /\ TrimSpace(raw) # <<>>
        /\ CommandKind(TrimSpace(raw)) = "reset"
        /\ CmdHistory' = Append(CmdHistory, TrimSpace(raw))
        /\ History' = FreshHistory
        /\ out' = Append(out, Printed("reset", <<>>))
        /\ Handled
        /\ UNCHANGED <<Model, Debug, LastRequestID, isSingleCmd, enableStream,
                       turn, pre>>

\* a variant that empties the command log too
resetConversation_ClearsLog ==
    \E raw \in RawInputs :
        /\ Reads(raw)
        /\ TrimSpace(raw) # <<>>
        /\ CommandKind(TrimSpace(raw)) = "reset"
        /\ CmdHistory' = <<>>
        /\ History' = FreshHistory
        /\ LastRequestID' = <<>>
        /\ out' = Append(out, Printed("reset", <<>>))
        /\ Handled
        /\ UNCHANGED <<Model, Debug, isSingleCmd, enableStream, turn, pre>>

\* src/main.go:206-208 and 225-229
resetConversation ==
    \E raw \in RawInputs :
        /\ Reads(raw)
        /\ TrimSpace(raw) # <<>>
        /\ CommandKind(TrimSpace(raw)) = "reset"
        /\ CmdHistory' = Append(CmdHistory, TrimSpace(raw))
        /\ History' = FreshHistory
        /\ LastRequestID' = <<>>
        /\ out' = Append(out, Printed("reset", <<>>))
        /\ Handled
        /\ UNCHANGED <<Model, Debug, isSingleCmd, enableStream, turn, pre>>

\* src/main.go:209-211 and 231-246
EnterModel ==
    \E raw \in RawInputs :
        /\ Reads(raw)
        /\ TrimSpace(raw) # <<>>
        /\ CommandKind(TrimSpace(raw)) = "model"
        /\ CmdHistory' = Append(CmdHistory, TrimSpace(raw))
        /\ Model' = handleModelSwitch(TrimSpace(raw), Model)
        /\ out' = Append(out, ModelSwitchPrint(TrimSpace(raw), Model))
        /\ Handled
        /\ UNCHANGED <<History, Debug, LastRequestID, isSingleCmd,
                       enableStream, turn, pre>>

\* src/main.go:212-214 and 248-251
toggleDebugMode ==
    \E raw \in RawInputs :
        /\ Reads(raw)
        /\ TrimSpace(raw) # <<>>
        /\ CommandKind(TrimSpace(raw)) = "debug"
        /\ CmdHistory' = Append(CmdHistory, TrimSpace(raw))
        /\ Debug' = ~Debug
        /\ out' = Append(out, Printed("debugmode", <<>>))
        /\ Handled
        /\ UNCHANGED <<Model, History, LastRequestID, isSingleCmd,
                       enableStream, turn, pre>>

\* src/main.go:215-220: /help and /history only print
EnterHelp ==
    \E raw \in RawInputs :
        /\ Reads(raw)
        /\ TrimSpace(raw) # <<>>
        /\ CommandKind(TrimSpace(raw)) \in {"help", "history"}
        /\ CmdHistory' = Append(CmdHistory, TrimSpace(raw))
        /\ out' = Append(out, Printed(CommandKind(TrimSpace(raw)), <<>>))
        /\ Handled
        /\ UNCHANGED <<Model, History, Debug, LastRequestID, isSingleCmd,
                       enableStream, turn, pre>>

\* src/main.go:123-124 or 170-171, and 265-270: a user turn begins
EnterText ==
    \E raw \in RawInputs :
        /\ Reads(raw)
        /\ TrimSpace(raw) # <<>>
        /\ CommandKind(TrimSpace(raw)) = "text"
        /\ pre' = Snapshot
        /\ CmdHistory' = Append(CmdHistory, TrimSpace(raw))
        /\ History' = Append(History, Msg("user", TrimSpace(raw)))
        /\ streamOutput' = IF isSingleCmd THEN enableStream ELSE TRUE
        /\ out' = IF streamOutput' /\ ~isSingleCmd
                  THEN Append(out, Printed("prompt", Model)) ELSE out
        /\ pc' = "Sending"
        /\ UNCHANGED <<defaultModel, Model, Debug, LastRequestID, isSingleCmd,
                       enableStream, exitCode, sent, status, resp, rd,
                       fullResponse, requestID, ret>>

(***************************************************************************)
(* streamChatCompletion (src/main.go:298-334) and the rest of              *)
(* processAIResponse (src/main.go:272-296).                                *)
(***************************************************************************)
HttpOK == 200
StatusCodes == {200, 201, 500}

\* the bodies a turn of the session is answered with
TurnBodies ==
    {Body(LineA \o LineB \o DoneLine, "EOF"),
     Body(LineB \o DoneLine, "EOF"),
     Body(LineStopFrag \o LineA, "EOF"),
     Body(LineA \o LineBad, "EOF"),
     Body(LineShort \o LineNull, "EOF"),
     Body(LineA, "ERR")}

\* a request that carries the system preamble and the last message only
Payload_LastOnly ==
    [Model |-> Model, Messages |-> <<History[1], History[Len(History)]>>,
     Stream |-> TRUE]

\* src/main.go:299-303
Payload == [Model |-> Model, Messages |-> History, Stream |-> TRUE]

\* src/main.go:310-312
RequestDump == IF Debug THEN <<Printed("debug", Model)>> ELSE <<>>

session0 == <<defaultModel, Model, History, CmdHistory, Debug, LastRequestID,
              isSingleCmd, enableStream, nread, exitCode, pre>>

\* src/main.go:314-317: the request cannot be built
RequestFails ==
    /\ pc = "Sending"
    /\ out' = out \o RequestDump
    /\ ret' = Ret(<<>>, <<>>, "request")
    /\ pc' = "Returned"
    /\ UNCHANGED <<session0, streamOutput, sent, status, resp, rd,
                   fullResponse, requestID>>

\* src/main.go:322-325: Client.Do returns an error
SendFails ==
    /\ pc = "Sending"
    /\ out' = out \o RequestDump
    /\ sent' = Payload
    /\ ret' = Ret(<<>>, <<>>, "send")
    /\ pc' = "Returned"
    /\ UNCHANGED <<session0, streamOutput, status, resp, rd, fullResponse,
                   requestID>>

\* src/main.go:328-331: a response whose status is not http.StatusOK
StatusRejected ==
    /\ pc = "Sending"
    /\ \E code \in StatusCodes :
         /\ code # HttpOK
         /\ status' = code
    /\ out' = out \o RequestDump
    /\ sent' = Payload
    /\ ret' = Ret(<<>>, <<>>, "status")
    /\ pc' = "Returned"
    /\ UNCHANGED <<session0, streamOutput, resp, rd, fullResponse, requestID>>

\* src/main.go:333 and 337-341: the body is handed to processStreamResponse
ResponseOK ==
    /\ pc = "Sending"
    /\ \E code \in StatusCodes, body \in TurnBodies :
         /\ code = HttpOK
         /\ status' = code
         /\ resp' = body
    /\ sent' = Payload
    /\ streamOutput' = streamOutput
    /\ SetDecoder(DecStart(streamOutput, out \o RequestDump))
    /\ UNCHANGED session0

\* a variant that takes the unanswered user message back out of the history
TurnFails_Rollback ==
    /\ pc = "Returned"
    /\ ret.err # "nil"
    /\ pc' = "Failed"
    /\ History' = SubSeq(History, 1, Len(History) - 1)
    /\ UNCHANGED <<Model, CmdHistory, Debug, LastRequestID, isSingleCmd,
                   enableStream, nread, exitCode, pre, turn, out>>

\* src/main.go:272-275: streamChatCompletion returned an error
TurnFails ==
    /\ pc = "Returned"
    /\ ret.err # "nil"
    /\ pc' = "Failed"
    /\ UNCHANGED <<session0, turn, out>>

\* src/main.go:283-289: the reply is printed when it was not streamed
ReplyPrint(so, text) == IF ~so THEN <<Printed("reply", text)>> ELSE <<>>

\* src/main.go:291-293 and 395-400
DebugInfo(debug, id) == IF debug THEN <<Printed("debuginfo", id)>> ELSE <<>>

\* a variant that stores the reply over the last entry of the history
TurnCompletes_Overwrite ==
    /\ pc = "Returned"
    /\ ret.err = "nil"
    /\ LastRequestID' = ret.id
    /\ History' = [History EXCEPT ![Len(History)] = Msg("assistant", ret.text)]
    /\ out' = out \o ReplyPrint(streamOutput, ret.text)
                  \o DebugInfo(Debug, LastRequestID')
    /\ pc' = "Completed"
    /\ UNCHANGED <<Model, CmdHistory, Debug, isSingleCmd, enableStream, nread,
                   exitCode, pre, turn>>

\* a variant that keeps the stored id when the turn returned none
TurnCompletes_KeepsID ==
    /\ pc = "Returned"
    /\ ret.err = "nil"
    /\ LastRequestID' = IF ret.id = <<>> THEN LastRequestID ELSE ret.id
    /\ History' = Append(History, Msg("assistant", ret.text))
    /\ out' = out \o ReplyPrint(streamOutput, ret.text)
                  \o DebugInfo(Debug, LastRequestID')
    /\ pc' = "Completed"
    /\ UNCHANGED <<Model, CmdHistory, Debug, isSingleCmd, enableStream, nread,
                   exitCode, pre, turn>>

\* src/main.go:277-295
TurnCompletes ==
    /\ pc = "Returned"
    /\ ret.err = "nil"
    /\ LastRequestID' = ret.id
    /\ History' = Append(History, Msg("assistant", ret.text))
    /\ out' = out \o ReplyPrint(streamOutput, ret.text)
                  \o DebugInfo(Debug, LastRequestID')
    /\ pc' = "Completed"
    /\ UNCHANGED <<Model, CmdHistory, Debug, isSingleCmd, enableStream, nread,
                   exitCode, pre, turn>>

\* src/main.go:171-175: the interactive loop reports an error and goes on
NextPrompt ==
    /\ pc \in {"Completed", "Failed"}
    /\ ~isSingleCmd
    /\ out' = out \o (IF pc = "Failed" THEN <<Printed("error", <<>>)>>
                      ELSE <<>>)
                  \o <<Printed("newline", <<>>)>>
    /\ pc' = "Idle"
    /\ UNCHANGED <<session0, turn>>

\* a variant that ends the process with status 0 whatever the turn did
SingleExits_Zero ==
    /\ pc \in {"Completed", "Failed"}
    /\ isSingleCmd
    /\ out' = out \o (IF pc = "Failed" THEN <<Printed("error", <<>>)>>
                      ELSE <<>>)
    /\ exitCode' = 0
    /\ pc' = "Exited"
    /\ UNCHANGED <<Model, History, CmdHistory, Debug, LastRequestID,
                   isSingleCmd, enableStream, nread, pre, turn>>

\* src/main.go:124-125 and 93-97: the single command's turn ends the process
SingleExits ==
    /\ pc \in {"Completed", "Failed"}
    /\ isSingleCmd
    /\ out' = out \o (IF pc = "Failed" THEN <<Printed("error", <<>>)>>
                      ELSE <<>>)
    /\ exitCode' = IF pc = "Failed" THEN 1 ELSE 0
    /\ pc' = "Exited"
    /\ UNCHANGED <<Model, History, CmdHistory, Debug, LastRequestID,
                   isSingleCmd, enableStream, nread, pre, turn>>

Next ==
    \/ ReadlineEnds
    \/ ReadlineFails
    \/ EnterBlank
    \/ EnterExit
    \/ resetConversation
    \/ EnterModel
    \/ toggleDebugMode
    \/ EnterHelp
    \/ EnterText
    \/ RequestFails
    \/ SendFails
    \/ StatusRejected
    \/ ResponseOK
    \/ DecodeReadError
    \/ DecodeEOF
    \/ DecodeSkip
    \/ DecodeDone
    \/ DecodeMalformed
    \/ DecodeChunk
    \/ DecodeReturn
    \/ TurnFails
    \/ TurnCompletes
    \/ NextPrompt
    \/ SingleExits

Spec == Init /\ [][Next]_vars

(***************************************************************************)
(* The decoder on its own: processStreamResponse applied to every body of  *)
(* at most MaxLines records, with both values of debug and streamOutput.   *)
(***************************************************************************)
DecInit ==
    /\ defaultModel = M_qwen_plus
    /\ Model = defaultModel
    /\ History = <<Msg("system", SystemPreamble)>>
    /\ CmdHistory = <<>>
    /\ Debug \in BOOLEAN
    /\ LastRequestID = <<>>
    /\ isSingleCmd = FALSE
    /\ enableStream = FALSE
    /\ streamOutput \in BOOLEAN
    /\ pc = IF streamOutput THEN "Streaming" ELSE "Buffering"
    /\ nread = 0
    /\ exitCode = -1
    /\ sent = NoPayload
    /\ status = 0
    /\ resp \in Bodies(MaxLines)
    /\ rd = 0
    /\ fullResponse = <<>>
    /\ requestID = <<>>
    /\ ret = NoRet
    /\ out = <<>>
    /\ pre = NoPre

DecNext ==
    \/ DecodeReadError
    \/ DecodeEOF
    \/ DecodeSkip
    \/ DecodeDone
    \/ DecodeMalformed
    \/ DecodeChunk
    \/ DecodeReturn

DecSpec == DecInit /\ [][DecNext]_vars

(***************************************************************************)
(* Properties of the decoder, checked under DecSpec.  A body is read here  *)
(* as a list of records, independently of the decoder's loop.              *)
(***************************************************************************)
\* the positions of the newlines of data
Newlines(data) == {i \in 1..Len(data) : data[i] = "\n"}

\* the position of the k-th newline, 0 for k = 0
NthNewline(nl, k) ==
    IF k = 0 THEN 0
    ELSE CHOOSE e \in nl : Cardinality({x \in nl : x <= e}) = k

LinesAt(data, nl) ==
    [k \in 1..Cardinality(nl) |->
        SubSeq(data, NthNewline(nl, k - 1) + 1, NthNewline(nl, k))]

TailAt(data, nl) ==
    SubSeq(data, NthNewline(nl, Cardinality(nl)) + 1, Len(data))

\* the newline-terminated records of a body, and the bytes after the last
Records(body) ==
    [lines |-> LinesAt(body.data, Newlines(body.data)),
     tail |-> TailAt(body.data, Newlines(body.data))]

IsData(line) == HasPrefix(line, DataPrefix)

\* the records that carry an event: the "data: " records
DataRecords(lines) == SelectSeq(lines, IsData)

\* what json.Unmarshal makes of each record of the catalogue, worked out once
EventTable == {<<l, Unmarshal(SliceFrom(l, 6))>> : l \in Catalogue}

\* what json.Unmarshal makes of a record after its prefix
Event(line) ==
    IF line \in Catalogue
    THEN (CHOOSE p \in EventTable : p[1] = line)[2]
    ELSE Unmarshal(SliceFrom(line, 6))

\* the events of a list of data records
Events(lines) == [i \in 1..Len(lines) |-> Event(lines[i]).chunk]

AllDecode(lines) == \A i \in 1..Len(lines) : ~Event(lines[i]).err

FirstChoiceContent(ev) ==
    IF ev.Choices = <<>> THEN <<>> ELSE ev.Choices[1].Delta.Content

FirstChoiceStops(ev) ==
    ev.Choices # <<>> /\ ev.Choices[1].FinishReason = StopReason

\* the concatenation of the first-choice fragments of a list of events
RECURSIVE Fragments(_)
Fragments(evs) ==
    IF evs = <<>> THEN <<>>
    ELSE FirstChoiceContent(Head(evs)) \o Fragments(Tail(evs))

\* the first non-empty id of a list of events, "" when there is none
RECURSIVE FirstId(_)
FirstId(evs) ==
    IF evs = <<>> THEN <<>>
    ELSE IF Head(evs).ID # <<>> THEN Head(evs).ID
    ELSE FirstId(Tail(evs))

\* the events up to and including the first whose first choice says "stop"
RECURSIVE UpToStop(_)
UpToStop(evs) ==
    IF evs = <<>> THEN <<>>
    ELSE IF FirstChoiceStops(Head(evs)) THEN <<Head(evs)>>
    ELSE <<Head(evs)>> \o UpToStop(Tail(evs))

\* the records before the last one
Front(lines) == SubSeq(lines, 1, Len(lines) - 1)

\* a body made only of newline-terminated records whose last is the
\* terminator
EndsWithTerminator(recs) ==
    /\ recs.tail = <<>>
    /\ recs.lines # <<>>
    /\ recs.lines[Len(recs.lines)] = DoneLine

\* C1 as stated, reading "well-formed JSON" as "decodes as an event": some
\* event has a non-empty first-choice fragment; then the decode returns the
\* fragments of all events before the terminator and their first id
C1_OriginalHolds(recs) ==
    (/\ EndsWithTerminator(recs)
     /\ AllDecode(DataRecords(Front(recs.lines)))
     /\ Fragments(Events(DataRecords(Front(recs.lines)))) # <<>>)
    => ret = Ret(Fragments(Events(DataRecords(Front(recs.lines)))),
                 FirstId(Events(DataRecords(Front(recs.lines)))), "nil")

C1_Original == pc = "Returned" => C1_OriginalHolds(Records(resp))

C1_Pre(recs) ==
    /\ EndsWithTerminator(recs)
    /\ AllDecode(DataRecords(Front(recs.lines)))
    /\ Fragments(UpToStop(Events(DataRecords(Front(recs.lines))))) # <<>>

C1_Holds(recs) ==
    C1_Pre(recs)
    => ret = Ret(Fragments(UpToStop(Events(DataRecords(Front(recs.lines))))),
                 FirstId(UpToStop(Events(DataRecords(Front(recs.lines))))),
                 "nil")

\* C1 (amended): for a body made only of newline-terminated records whose
\* last record is the terminator, whose "data: " records before it all decode
\* as events, and whose events up to and including the first one with
\* finish_reason "stop" in its first choice (all of them when there is none)
\* carry a non-empty first-choice fragment, processStreamResponse succeeds
\* with the concatenation of those events' first-choice fragments in arrival
\* order and the first non-empty id among those events
C1_Decode == pc = "Returned" => C1_Holds(Records(resp))

\* two events with different ids and the terminator have been decoded
C1_Witness ==
    /\ pc = "Returned"
    /\ C1_Pre(Records(resp))
    /\ resp.data = LineA \o LineB \o DoneLine
    /\ ret = Ret(<<"H","e","y">>, <<"r","1">>, "nil")

\* what an event is to the decoder
KindOf(u) ==
    IF u.err THEN "bad"
    ELSE IF FirstChoiceStops(u.chunk) THEN "stop"
    ELSE "event"

\* what a record is to the decoder
LineKind(line) ==
    IF ~IsData(line) THEN "skip"
    ELSE IF line = DoneLine THEN "done"
    ELSE KindOf(Event(line))

RECURSIVE Kinds(_)
Kinds(lines) ==
    IF lines = <<>> THEN <<>>
    ELSE <<LineKind(Head(lines))>> \o Kinds(Tail(lines))

\* the records at which the loop ends or fails, ks the kinds of the records
Enders(ks) == {i \in 1..Len(ks) : ks[i] \in {"done", "bad", "stop"}}

\* the first of them, 0 when there is none
FirstEnder(ks) ==
    IF Enders(ks) = {} THEN 0
    ELSE CHOOSE i \in Enders(ks) : \A j \in Enders(ks) : i <= j

\* an event with its kind
Classed(u) == [kind |-> KindOf(u), ev |-> u.chunk]

\* a record with its kind and, when it is an event, the event
Classify(line) ==
    IF ~IsData(line) THEN [kind |-> "skip", ev |-> ZeroChunk]
    ELSE IF line = DoneLine THEN [kind |-> "done", ev |-> ZeroChunk]
    ELSE Classed(Event(line))

RECURSIVE Classified(_)
Classified(lines) ==
    IF lines = <<>> THEN <<>>
    ELSE <<Classify(Head(lines))>> \o Classified(Tail(lines))

RECURSIVE KindsOf(_)
KindsOf(cs) ==
    IF cs = <<>> THEN <<>> ELSE <<Head(cs).kind>> \o KindsOf(Tail(cs))

\* the events among the first n records
RECURSIVE EventsAmong(_, _)
EventsAmong(cs, n) ==
    IF n = 0 THEN <<>>
    ELSE EventsAmong(cs, n - 1)
         \o (IF cs[n].kind \in {"event", "stop"} THEN <<cs[n].ev>> ELSE <<>>)

\* the events among the records the loop reads
EventsRead(cs, ks) ==
    EventsAmong(cs, IF FirstEnder(ks) = 0 THEN Len(cs) ELSE FirstEnder(ks))

\* the loop meets a record that fails to parse
ReachesMalformed(ks) == FirstEnder(ks) # 0 /\ ks[FirstEnder(ks)] = "bad"

\* the loop ends by end of stream, terminator or stop
EndsNormally(body, ks) ==
    IF FirstEnder(ks) = 0 THEN body.err = "EOF"
    ELSE ks[FirstEnder(ks)] \in {"done", "stop"}

C7_OriginalHolds(ks) ==
    (\E i \in 1..Len(ks) : ks[i] = "bad")
    => /\ ret.err \in {"read", "json", "empty"}
       /\ ret.text = <<>>
       /\ ret.id = <<>>

\* C7 as stated: a malformed "data: " record anywhere among the records makes
\* the decode fail with empty text and id
C7_Original ==
    pc = "Returned" => C7_OriginalHolds(Kinds(Records(resp).lines))

C7_Holds(ks) == ReachesMalformed(ks) => ret = Ret(<<>>, <<>>, "json")

\* C7 (amended): when a "data: " record other than the terminator fails to
\* parse and no terminator and no event with finish_reason "stop" in its
\* first choice comes before it, processStreamResponse returns the parse
\* error with empty text and empty id, whatever was accumulated before
C7_Malformed == pc = "Returned" => C7_Holds(Kinds(Records(resp).lines))

\* a record failed to parse after a fragment and an id had been taken
C7_Witness ==
    /\ pc = "Returned"
    /\ ReachesMalformed(Kinds(Records(resp).lines))
    /\ fullResponse # <<>>
    /\ requestID # <<>>
    /\ ret = Ret(<<>>, <<>>, "json")

C8_Holds(cs, ks) ==
    /\ (EndsNormally(resp, ks) /\ Fragments(EventsRead(cs, ks)) = <<>>)
       => ret = Ret(<<>>, <<>>, "empty")
    /\ (resp.err = "EOF" /\ \A i \in 1..Len(ks) : ks[i] = "skip")
       => ret = Ret(<<>>, <<>>, "empty")
    /\ ret.err = "nil" => ret.text # <<>>

C8_With(cs) == C8_Holds(cs, KindsOf(cs))

C8_At(lines) == C8_With(Classified(lines))

\* C8: when the loop ends by end of stream, terminator or stop and the
\* records it read carry no fragment, processStreamResponse returns the
\* empty-reply error with empty text and no id; so it does for a body of
\* skipped records only that ends in end of stream; it never returns success
\* with an empty text
C8_EmptyReply == pc = "Returned" => C8_At(Records(resp).lines)

\* the loop ended with an id captured and nothing accumulated
C8_Witness ==
    /\ pc = "Returned"
    /\ EndsNormally(resp, Kinds(Records(resp).lines))
    /\ requestID # <<>>
    /\ fullResponse = <<>>
    /\ ret = Ret(<<>>, <<>>, "empty")

\* the records of the catalogue that are events with finish_reason "stop"
StopLines == {l \in Catalogue : LineKind(l) = "stop"}

\* the bytes before the last record
BeforeLast(body) == SubSeq(body.data, 1, Len(body.data) - Len(DoneLine))

\* a body P followed by the terminator, P without malformed record and
\* without terminator
C9_Pre(recs) ==
    /\ EndsWithTerminator(recs)
    /\ AllDecode(DataRecords(Front(recs.lines)))

\* the result for P followed by the stop event s is the result for P followed
\* by the terminator
C9_Same(s) ==
    \A e \in {"EOF", "ERR"} :
        processStreamResponse(Body(BeforeLast(resp) \o s, e), Debug,
                              streamOutput) = ret

C9_OriginalHolds(recs) == C9_Pre(recs) => \A s \in StopLines : C9_Same(s)

\* C9 as stated: any event with finish_reason "stop" in its first choice
C9_Original == pc = "Returned" => C9_OriginalHolds(Records(resp))

\* the stop events that add nothing to what P gave: no fragment, and no id
\* unless the events of P up to its first stop event carry one, pid
BareStops(pid) ==
    {s \in StopLines :
        /\ FirstChoiceContent(Event(s).chunk) = <<>>
        /\ Event(s).chunk.ID = <<>> \/ pid # <<>>}

\* the id P gives
IdOf(lines) == FirstId(UpToStop(Events(DataRecords(lines))))

C9_Holds(recs) ==
    C9_Pre(recs)
    => \A s \in BareStops(IdOf(Front(recs.lines))) : C9_Same(s)

\* C9 (amended): for records P whose "data: " records all decode as events,
\* decoding P followed by an event whose first choice has finish_reason
\* "stop" and an empty content, and which carries no id unless P already gave
\* one, returns the same text, id and error as decoding P followed by the
\* terminator, whatever follows the stop event
C9_StopAsDone == pc = "Returned" => C9_Holds(Records(resp))

\* P is one event with a fragment and an id; a stop event with another id
\* gives what the terminator gave
C9_Witness ==
    /\ pc = "Returned"
    /\ resp = Body(LineA \o DoneLine, "EOF")
    /\ LineStopId \in BareStops(IdOf(<<LineA>>))
    /\ C9_Same(LineStopId)
    /\ ret = Ret(<<"H","e">>, <<"r","1">>, "nil")

\* what the loop returns when it ends with the events evs read
EndResult(evs) ==
    IF Fragments(evs) = <<>> THEN Ret(<<>>, <<>>, "empty")
    ELSE Ret(Fragments(evs), FirstId(evs), "nil")

C16_Holds(lines, cs, ks, k) ==
    (k # 0 /\ ks[k] \in {"done", "stop"})
    => /\ rd = Len(Concat(SubSeq(lines, 1, k)))
       /\ ret = EndResult(EventsAmong(cs, k))
       /\ ks[k] = "stop"
          => fullResponse = Fragments(EventsAmong(cs, k - 1))
                            \o FirstChoiceContent(cs[k].ev)

C16_AtKinds(lines, cs, ks) == C16_Holds(lines, cs, ks, FirstEnder(ks))

C16_With(lines, cs) == C16_AtKinds(lines, cs, KindsOf(cs))

C16_At(lines) == C16_With(lines, Classified(lines))

\* C16: when the loop has met the terminator or an event whose first choice
\* has finish_reason "stop", nothing after that record is read, and the
\* result is made of the records up to it alone: what follows adds no text,
\* changes no id and brings no error; the fragment of the stop event itself
\* is the end of the accumulated text
C16_NothingAfterEnd == pc = "Returned" => C16_At(Records(resp).lines)

\* a stop event with a fragment, and a malformed record after it
C16_Witness ==
    /\ pc = "Returned"
    /\ resp.data = LineStopFrag \o LineBad
    /\ rd = Len(LineStopFrag)
    /\ ret = Ret(<<".">>, <<>>, "nil")

\* a record that begins like the terminator and is not the terminator
NearDone(line) == HasPrefix(line, SubSeq(DoneLine, 1, 12)) /\ line # DoneLine

LongEnough(line) == Len(line) >= 6

C17_Holds(lines, ks) ==
    /\ \A k \in 1..Len(lines) :
          (/\ NearDone(lines[k])
           /\ \A j \in 1..(k - 1) : ks[j] \in {"skip", "event"})
          => ret = Ret(<<>>, <<>>, "json")
    /\ (\E k \in 1..Len(lines) : ~LongEnough(lines[k]))
       => ret = processStreamResponse(
                   Body(Concat(SelectSeq(lines, LongEnough)), resp.err),
                   Debug, streamOutput)

C17_At(recs) == C17_Holds(recs.lines, Kinds(recs.lines))

\* C17: a record that begins with "data: [DONE]" and is not "data: [DONE]\n"
\* byte for byte does not end the loop: when the loop reaches it, it is parsed
\* as an event and the decode fails with the parse error; and records shorter
\* than six bytes are skipped: the result is the one for the stream without
\* them
C17_ByteExact == pc = "Returned" => C17_At(Records(resp))

\* "data: [DONE]\r\n" after a fragment
C17_Witness ==
    /\ pc = "Returned"
    /\ resp.data = LineA \o LineDoneCR
    /\ fullResponse = <<"H","e">>
    /\ ret = Ret(<<>>, <<>>, "json")

C18_Holds(cs, ks) ==
    FirstEnder(ks) = 0
    => IF resp.err = "EOF"
       THEN ret = IF Fragments(EventsAmong(cs, Len(cs))) = <<>>
                  THEN Ret(<<>>, <<>>, "empty")
                  ELSE Ret(Fragments(EventsAmong(cs, Len(cs))),
                           FirstId(EventsAmong(cs, Len(cs))), "nil")
       ELSE ret = Ret(<<>>, <<>>, "read")

C18_With(cs) == C18_Holds(cs, KindsOf(cs))

C18_At(lines) == C18_With(Classified(lines))

\* C18: when the stream holds no terminator, no stop event and no malformed
\* record, its end is a normal end: the decode returns the fragments of the
\* newline-terminated records and their first id if there is a fragment, and
\* the bytes after the last newline add nothing and are not parsed; a read
\* error other than the end of the stream fails the decode whatever had been
\* accumulated
C18_EndOfStream == pc = "Returned" => C18_At(Records(resp).lines)

\* an event, then an event the stream ends in the middle of
C18_Witness ==
    /\ pc = "Returned"
    /\ resp = Body(LineA \o PartialTail, "EOF")
    /\ ret = Ret(<<"H","e">>, <<"r","1">>, "nil")

IsFrag(p) == p.k = "frag"

\* the fragments printed, in order
Emitted(printed) == SelectSeq(printed, IsFrag)

RECURSIVE Texts(_)
Texts(ps) == IF ps = <<>> THEN <<>> ELSE Head(ps).s \o Texts(Tail(ps))

\* the non-empty first-choice fragments of a list of events, in order
RECURSIVE FragmentList(_)
FragmentList(evs) ==
    IF evs = <<>> THEN <<>>
    ELSE (IF FirstChoiceContent(Head(evs)) = <<>> THEN <<>>
          ELSE <<Printed("frag", FirstChoiceContent(Head(evs)))>>)
         \o FragmentList(Tail(evs))

C19_AtReturn(cs, ks) ==
    /\ streamOutput => Emitted(out) = FragmentList(EventsRead(cs, ks))
    /\ (streamOutput /\ ret.err = "nil") => Texts(Emitted(out)) = ret.text
    /\ ret.err \in {"json", "read"} => ret.text = <<>>

C19_With(cs) == C19_AtReturn(cs, KindsOf(cs))

C19_At(lines) == C19_With(Classified(lines))

\* C19: with streamOutput every non-empty fragment is printed once, in the
\* step that appends it, so the printed fragments always make up the
\* accumulated text, and the returned text on success; without streamOutput
\* no fragment is printed; when the decode fails on a malformed record or a
\* read error the fragments printed before stay printed and no text is
\* returned
C19_Emission ==
    /\ Texts(Emitted(out)) = IF streamOutput THEN fullResponse ELSE <<>>
    /\ \A i \in 1..Len(out) : out[i].k = "frag" => out[i].s # <<>>
    /\ pc = "Returned" => C19_At(Records(resp).lines)

\* a fragment was printed and the decode then failed on a malformed record
C19_Witness ==
    /\ pc = "Returned"
    /\ streamOutput
    /\ ret = Ret(<<>>, <<>>, "json")
    /\ Texts(Emitted(out)) = <<"H","e">>

(***************************************************************************)
(* Properties of the session, checked under Spec.  pre is the session as   *)
(* it was when the input of the current turn was read.                     *)
(***************************************************************************)
IsPrefix(s, t) == Len(s) <= Len(t) /\ SubSeq(t, 1, Len(s)) = s

\* the text of the input that began the current turn, as the loop kept it
EnteredText == CmdHistory[Len(CmdHistory)]

\* the errors streamChatCompletion returns
Failures == {"request", "send", "status", "read", "json", "empty"}

\* the step in which the reset notice is printed
ResetStep == out' = Append(out, Printed("reset", <<>>))

\* C2: when a turn has failed (request or network error, non-200 status,
\* read error, malformed event or empty reply) the history is the history
\* before the turn followed by the new user message and nothing else, and
\* the model, the debug flag and the last request id are those before the turn
C2_FailedTurn ==
    pc = "Failed" =>
        /\ ret.err \in Failures
        /\ Len(History) = Len(pre.History) + 1
        /\ History = Append(pre.History, Msg("user", EnteredText))
        /\ Model = pre.Model
        /\ Debug = pre.Debug
        /\ LastRequestID = pre.LastRequestID

\* a turn failed on a malformed event after fragments had been accumulated,
\* in a session that had completed a turn before
C2_Witness ==
    /\ pc = "Failed"
    /\ ret.err = "json"
    /\ fullResponse # <<>>
    /\ Len(History) = 4
    /\ LastRequestID # <<>>

C3_Step ==
    /\ (pc = "Returned" /\ pc' = "Completed") =>
           /\ Len(History') = Len(pre.History) + 2
           /\ History' = pre.History \o <<Msg("user", EnteredText),
                                          Msg("assistant", ret.text)>>
    /\ ~ResetStep => IsPrefix(History, History')

\* C3: the step that completes a turn leaves the history before the turn
\* followed by the user message with the entered text and an assistant message
\* with the decoded text, two entries more; and every step other than a reset
\* keeps the existing entries of the history as they are and in their order
C3_History == [][C3_Step]_vars

\* a second turn has completed, with the same input as the first
C3_Witness ==
    /\ pc = "Completed"
    /\ Len(History) = 5
    /\ History[2] = History[4]

\* C4: the history is never empty and its first entry is the system preamble
C4_SystemFirst ==
    /\ History # <<>>
    /\ History[1] = Msg("system", SystemPreamble)

\* after a completed turn and a command that is not a reset
C4_Witness ==
    /\ pc = "Idle"
    /\ Len(History) = 3
    /\ Len(CmdHistory) = 2
    /\ History[1] = Msg("system", SystemPreamble)

C5_Step ==
    ResetStep =>
        /\ Len(History') = 1
        /\ History' = <<Msg("system", SystemPreamble)>>
        /\ LastRequestID' = <<>>
        /\ CmdHistory' = Append(CmdHistory, I_reset)
        /\ Model' = Model
        /\ Debug' = Debug

\* C5: a reset leaves a history of length 1 holding the system preamble and
\* an empty last request id; the model and the debug flag stay, and so does
\* the command log, which holds the /reset line the loop recorded before the
\* reset and everything before it
C5_Reset == [][C5_Step]_vars

\* a reset following a failed turn, which had left its user message behind
C5_Witness ==
    /\ out # <<>>
    /\ out[Len(out)] = Printed("reset", <<>>)
    /\ ret.err = "status"
    /\ Len(pre.History) = 1
    /\ History = FreshHistory
    /\ Len(CmdHistory) = 2

\* the step that handles an input beginning with /model
ModelStep ==
    /\ nread' = nread + 1
    /\ Len(CmdHistory') = Len(CmdHistory) + 1
    /\ HasPrefix(CmdHistory'[Len(CmdHistory')], I_model)

Spaces(s) == {i \in 1..Len(s) : s[i] = " "}

FirstSpace(s) == CHOOSE i \in Spaces(s) : \A j \in Spaces(s) : i <= j

\* the target of a model switch: what stands between the first space of the
\* command and the next
TargetOf(input) ==
    LET rest == SliceFrom(input, FirstSpace(input)) IN
    IF Spaces(rest) = {} THEN rest ELSE SubSeq(rest, 1, FirstSpace(rest) - 1)

C6_Step ==
    /\ Model' \in AllowedModels \cup {defaultModel'}
    /\ ModelStep =>
          IF /\ Spaces(CmdHistory'[Len(CmdHistory')]) # {}
             /\ TargetOf(CmdHistory'[Len(CmdHistory')]) \in AllowedModels
          THEN Model' = TargetOf(CmdHistory'[Len(CmdHistory')])
          ELSE Model' = Model /\ History' = History

\* C6: a model switch without a target or with a target outside the allow-list
\* leaves the model and the history as they are, one with a target in the
\* allow-list makes that target the model; the model is always the one given
\* at startup or one of the allow-list
C6_ModelSwitch ==
    /\ Model \in AllowedModels \cup {defaultModel}
    /\ [][C6_Step]_vars

\* a target outside the allow-list was refused, then one of the list taken
C6_Witness ==
    /\ defaultModel = M_custom
    /\ Model = M_qwen_max
    /\ Len(CmdHistory) = 2
    /\ CmdHistory[1] = I_model \o <<" ","g","p","t","-","4">>

\* the phase of the turn: Receiving is Streaming or Buffering, and lasts
\* until processStreamResponse has returned to processAIResponse
Phase ==
    IF pc \in {"Streaming", "Buffering", "LoopEnd"} THEN "Receiving"
    ELSE IF pc = "Returned"
    THEN (IF ret.err \in {"request", "send", "status"} THEN "Sending"
          ELSE "Receiving")
    ELSE pc

\* the transitions of a turn as C10 gives them
TurnTransitions ==
    {<<"Idle", "Sending">>, <<"Sending", "Receiving">>,
     <<"Receiving", "Completed">>, <<"Receiving", "Failed">>,
     <<"Completed", "Idle">>, <<"Failed", "Idle">>}

\* while a turn is under way no input is read, no command is recorded or
\* applied, and only the completion of the turn writes the history and the
\* last request id
C10_NoCommand ==
    Phase # "Idle" =>
        /\ nread' = nread
        /\ CmdHistory' = CmdHistory
        /\ Model' = Model
        /\ Debug' = Debug
        /\ (History' # History \/ LastRequestID' # LastRequestID)
           => (Phase = "Receiving" /\ Phase' = "Completed")

\* C10 as stated; the end of the process at the prompt is no part of a turn
C10_Original ==
    [][/\ Phase' # Phase
          => <<Phase, Phase'>> \in TurnTransitions \cup {<<"Idle", "Exited">>}
       /\ C10_NoCommand]_vars

C10_Step ==
    /\ Phase' # Phase
       => <<Phase, Phase'>> \in
             TurnTransitions \cup {<<"Sending", "Failed">>,
                                   <<"Completed", "Exited">>,
                                   <<"Failed", "Exited">>,
                                   <<"Idle", "Exited">>}
    /\ (Phase = "Sending" /\ Phase' = "Failed")
       => ret.err \in {"request", "send", "status"}
    /\ (Phase \in {"Completed", "Failed"} /\ Phase' # Phase)
       => Phase' = IF isSingleCmd THEN "Exited" ELSE "Idle"
    /\ C10_NoCommand

\* C10 (amended): a turn goes Idle -> Sending -> Streaming/Buffering ->
\* Completed or Failed, or from Sending straight to Failed when the request
\* cannot be built or sent or the status is not 200; in the interactive loop
\* Completed and Failed go back to Idle, with -c they end the process; a turn
\* begins only from Idle, and while one is under way no input is read and no
\* command changes the session
C10_Turn == [][C10_Step]_vars

\* back at the prompt after a completed turn and a failed one
C10_Witness ==
    /\ pc = "Idle"
    /\ nread = 2
    /\ Len(History) = 4
    /\ ret.err \in Failures

\* the step in which streamChatCompletion gets past building the request:
\* the request goes out
SendStep == pc = "Sending" /\ pc' # "Sending" /\ ret'.err # "request"

C11_Step ==
    SendStep =>
        /\ sent'.Messages = History
        /\ sent'.Model = Model
        /\ sent'.Stream = TRUE
        /\ History = Append(pre.History, Msg("user", EnteredText))
        /\ sent'.Messages[1] = Msg("system", SystemPreamble)
        /\ sent'.Messages[Len(sent'.Messages)] = Msg("user", EnteredText)

\* C11: the request sent for a turn carries the whole history as it is when
\* the request is sent, in order: the system preamble first, everything the
\* history held before the turn (user messages of failed turns included) and
\* the user message of this turn last; it carries the model of that moment
\* and stream = true
C11_Payload == [][C11_Step]_vars

\* the request of a turn that follows a failed one carries both user messages
C11_Witness ==
    /\ pc \in {"Streaming", "Buffering"}
    /\ Len(sent.Messages) = 3
    /\ sent.Messages[2].Role = "user"
    /\ sent.Messages[3].Role = "user"
    /\ sent.Messages = History

\* the step that starts a turn or carries out a command: every command
\* prints something, and only a refused input prints an error at the prompt
Dispatched ==
    /\ pc = "Idle"
    /\ \/ pc' = "Sending"
       \/ out' # out /\ out' # Append(out, Printed("error", <<>>))

C12_Step ==
    /\ IsPrefix(CmdHistory, CmdHistory')
    /\ Len(CmdHistory') <= Len(CmdHistory) + 1
    /\ Dispatched => Len(CmdHistory') = Len(CmdHistory) + 1
    /\ pc # "Idle" => CmdHistory' = CmdHistory

\* C12: the step that starts a turn or carries out a command appends one
\* entry to the command log; nothing is appended while the turn runs, whether
\* it succeeds or fails; and no step, a reset included, removes or changes an
\* entry of the log
C12_CmdLog == [][C12_Step]_vars

\* the log holds a reset and the input of a turn that failed after it
C12_Witness ==
    /\ pc = "Failed"
    /\ Len(CmdHistory) = 2
    /\ CmdHistory[1] = I_reset
    /\ CommandKind(CmdHistory[2]) = "text"

C13_Step ==
    /\ pc' = "Sending" => (pc = "Idle" /\ nread' = nread + 1)
    /\ sent' # sent => pc = "Sending"
    /\ (pc = "Failed" /\ pc' # pc /\ ~isSingleCmd)
       => /\ pc' = "Idle"
          /\ out' = out \o <<Printed("error", <<>>), Printed("newline", <<>>)>>
          /\ UNCHANGED <<Model, History, CmdHistory, Debug, LastRequestID>>
    /\ (isSingleCmd /\ pc # "Exited" /\ pc' = "Exited")
       => exitCode' = IF \/ pc = "Failed"
                         \/ pc = "Idle" /\ CmdHistory' = CmdHistory
                      THEN 1 ELSE 0

\* C13: a turn begins only with a new input read at the prompt and a request
\* goes out only once per turn, so a failed turn is not retried; in the
\* interactive loop a failed turn is reported and the loop returns to the
\* prompt with the session as the turn left it; with -c a failed turn or an
\* empty command ends the process with status 1, a command or a completed
\* turn with status 0
C13_NoRetry == [][C13_Step]_vars

\* the interactive loop has taken a new input after a failed turn
C13_Witness ==
    /\ ~isSingleCmd
    /\ pc = "Sending"
    /\ nread = 2
    /\ ret.err \in Failures
    /\ Len(History) = 3

Is2xx(code) == code \div 100 = 2

\* C14 as stated: when a response arrives, its body is handed to the decoder
\* if and only if its status is 2xx
C14_Original ==
    [][(pc = "Sending" /\ pc' # "Sending" /\ ret'.err \notin {"request", "send"})
       => (Is2xx(status') <=> pc' \in {"Streaming", "Buffering"})]_vars

C15_Step ==
    IF pc = "Returned" /\ pc' = "Completed" THEN LastRequestID' = ret.id
    ELSE IF ResetStep THEN LastRequestID' = <<>>
    ELSE LastRequestID' = LastRequestID

\* C15: the last request id is empty at the start; the completion of a turn
\* sets it to the id the turn returned, the empty one included; a reset
\* empties it; no other step, the failure of a turn included, changes it
C15_LastRequestID ==
    /\ LastRequestID = <<>>
    /\ [][C15_Step]_vars

\* a turn that returned no id completed after one that had returned an id
C15_Witness ==
    /\ pc = "Completed"
    /\ LastRequestID = <<>>
    /\ pre.LastRequestID # <<>>
    /\ ret.err = "nil"

\* the roles of a history are in order: system first and only there, every
\* assistant message after a user message and with some content
RolesOK(h) ==
    /\ h # <<>>
    /\ \A i \in 1..Len(h) :
          /\ h[i].Role \in {"system", "user", "assistant"}
          /\ h[i].Role = "system" <=> i = 1
          /\ h[i].Role = "assistant"
             => (i > 1 /\ h[i - 1].Role = "user" /\ h[i].Content # <<>>)

\* the step that logs a command other than a reset or an exit
OtherCommandStep ==
    /\ Len(CmdHistory') = Len(CmdHistory) + 1
    /\ \/ CmdHistory'[Len(CmdHistory')] \in {I_debug, I_help, I_history}
       \/ HasPrefix(CmdHistory'[Len(CmdHistory')], I_model)

C20_Step ==
    /\ RolesOK(History')
    /\ OtherCommandStep
       => /\ History' = History
          /\ sent' = sent
          /\ pc' \in {"Idle", "Exited"}

\* C20: in the history the system role stands at the first place only, every
\* assistant message comes right after a user message and has some content,
\* so two assistant messages are never next to each other, while user
\* messages can be; a debug toggle, a model switch, /help and /history leave
\* the history as it is and send nothing
C20_Roles ==
    /\ RolesOK(History)
    /\ [][C20_Step]_vars

\* two user messages in a row, then the reply to the second
C20_Witness ==
    /\ Len(History) = 4
    /\ History[2].Role = "user"
    /\ History[3].Role = "user"
    /\ History[4].Role = "assistant"

====
